---------------------------- MODULE Spec2Model ----------------------------
(***************************************************************************)
(* Model of the quality-enhancement stage of the STL generation pipeline:  *)
(*   - remove_background        (server/python-quality-service.py), the    *)
(*     cascading segmentation: GrabCut, then threshold contours, then a    *)
(*     centred circle;                                                     *)
(*   - remove_background_opencv (server/opencv-fallback.py), the composite *)
(*     segmentation: GrabCut OR edges OR colour, median-smoothed;          *)
(*   - normalize_mesh_scale     (server/python-quality-service.py), the    *)
(*     mesh normaliser: merge, centre, scale, repair, export.              *)
(* Each function is a sequential program; its position is a pc variable    *)
(* and every library call whose outcome the code reacts to (a return value *)
(* it tests, an exception one of its except clauses catches) is a          *)
(* nondeterministic choice over those outcomes.                            *)
(***************************************************************************)
EXTENDS Integers, Sequences, FiniteSets

VARIABLES
    \* ---- remove_background (cascade) ----
    rb_pc,        \* position in remove_background
    image,        \* the decoded image: [width, height] (0 x 0: none)
    rb_status,    \* per method: "notrun", "running", "raised",
                  \* "nocontours", "completed"
    contours,     \* the threshold method's contour list: "unset", "empty", "some"
    rb_mask,      \* the mask put in result[:, :, 3] by the running method
    rb_imwrite,   \* outcome of the last cv2.imwrite call, or "none"
    rb_file,      \* content of output_path: the mask written, if any
    rb_ret,       \* return value: "none", "True", "False"
    \* ---- remove_background_opencv (composite) ----
    ob_pc,        \* position in remove_background_opencv
    img,          \* the decoded image: [width, height, hsv] (0 x 0: none)
    ob_method1,   \* cv2.grabCut: "notrun", "ok" or "raised"
    mask2,        \* GrabCut foreground mask, one value per pixel
    edges,        \* edge map after closing and dilation
    combined_mask,\* mask2 OR (edges > 0)
    fg_from_color,\* inverted, closed background-colour mask
    final_mask,   \* combined_mask OR fg_from_color, then median-smoothed
    alpha,        \* final_mask * 255 as stored in the uint8 alpha channel
    ob_file,      \* output_path: [exists, alpha]
    ob_ret,       \* returned pair: [success, error]
    \* ---- normalize_mesh_scale ----
    nm_pc,            \* position in normalize_mesh_scale
    asset,            \* what trimesh.load returns for glb_path
    target_size_mm,   \* the target size argument
    mesh,             \* the mesh being normalised: [vertices, faces]
    merged_counts,    \* vertex and face totals logged after the merge step
    original_extents, \* bbox.extents before the transform
    scale_factor,     \* target_size_mm / max_extent
    new_extents,      \* new_bbox.extents after the transform
    repair,           \* outcome of the watertightness repair step
    stl_file,         \* stl_path: "absent", "partial" or "complete"
    nm_ret            \* the returned dict

obVars == <<ob_pc, img, ob_method1, mask2, edges, combined_mask, fg_from_color,
            final_mask, alpha, ob_file, ob_ret>>

nmVars == <<nm_pc, asset, target_size_mm, mesh, merged_counts,
            original_extents, scale_factor, new_extents, repair, stl_file,
            nm_ret>>

rbVars == <<rb_pc, image, rb_status, contours, rb_mask, rb_imwrite, rb_file,
           rb_ret>>

\* Largest image width and height remove_background decodes in the model.
MaxDim == 3

\* Largest image width and height remove_background_opencv decodes in the
\* model (its masks are kept pixel by pixel).
MaxPixDim == 2

Max2(a, b) == IF a >= b THEN a ELSE b
Min2(a, b) == IF a <= b THEN a ELSE b

\* Outcomes of cv2.imwrite: the file is written and True returned, False is
\* returned (the file could not be opened or encoded), or cv2.error is raised
\* (no writer for the extension).
ImwriteOutcomes == {"ok", "false", "raise"}

Methods == {"grabcut", "threshold", "circle"}

\* ------------------------------------------------------------------------
\* remove_background
\* ------------------------------------------------------------------------

\* rect = (width//8, height//8, width*3//4, height*3//4)
rb_rect(im) ==
    <<im.width \div 8, im.height \div 8,
      (im.width * 3) \div 4, (im.height * 3) \div 4>>

\* center = (width // 2, height // 2); radius = min(width, height) // 3
rb_circle(im) ==
    [method |-> "circle",
     center |-> <<im.width \div 2, im.height \div 2>>,
     radius |-> Min2(im.width, im.height) \div 3]

rb_Init ==
    /\ rb_pc = "imread"
    /\ image = [width |-> 0, height |-> 0]
    /\ contours = "unset"
    /\ rb_status = [m \in Methods |-> "notrun"]
    /\ rb_mask = [method |-> "none"]
    /\ rb_imwrite = "none"
    /\ rb_file = [method |-> "absent"]
    /\ rb_ret = "none"

\* image = cv2.imread(input_path); if image is None: return False
rb_imread ==
    /\ rb_pc = "imread"
    /\ \/ /\ rb_pc' = "done"
          /\ rb_ret' = "False"
          /\ UNCHANGED image
       \/ /\ \E w \in 1..MaxDim, h \in 1..MaxDim :
                image' = [width |-> w, height |-> h]
          /\ rb_pc' = "grabCut"
          /\ UNCHANGED rb_ret
    /\ UNCHANGED <<rb_status, contours, rb_mask, rb_imwrite, rb_file>>

\* Method 1, up to result[:, :, 3] = mask2 * 255: cv2.grabCut raises, or
\* classifies the pixels and the mask is put in the alpha channel.
rb_grabCut ==
    /\ rb_pc = "grabCut"
    /\ \/ /\ rb_status' = [rb_status EXCEPT !["grabcut"] = "raised"]
          /\ rb_pc' = "threshold"
          /\ UNCHANGED rb_mask
       \/ /\ rb_status' = [rb_status EXCEPT !["grabcut"] = "running"]
          /\ rb_mask' = [method |-> "grabcut", rect |-> rb_rect(image)]
          /\ rb_pc' = "imwrite1"
    /\ UNCHANGED <<image, contours, rb_imwrite, rb_file, rb_ret>>

\* The common shape of the three "cv2.imwrite(output_path, result);
\* return True" tails: the value imwrite returns is not looked at; only an
\* exception leaves the try block, for the handler onFail.
rb_write(here, method, onFail) ==
    /\ rb_pc = here
    /\ \E o \in ImwriteOutcomes :
          /\ rb_imwrite' = o
          /\ rb_file' = IF o = "ok" THEN rb_mask ELSE rb_file
          /\ IF o = "raise"
                THEN /\ rb_status' = [rb_status EXCEPT ![method] = "raised"]
                     /\ rb_pc' = IF onFail = "return" THEN "done" ELSE onFail
                     /\ rb_ret' = IF onFail = "return" THEN "False" ELSE rb_ret
                ELSE /\ rb_status' = [rb_status EXCEPT ![method] = "completed"]
                     /\ rb_pc' = "done"
                     /\ rb_ret' = "True"
    /\ UNCHANGED <<image, contours, rb_mask>>

\* Method 1, cv2.imwrite and return True; except: fall to the threshold method.
rb_imwrite1 == rb_write("imwrite1", "grabcut", "threshold")

\* Method 2 (threshold), up to result[:, :, 3] = mask: a call raises, no
\* contour is found, or the largest contour is filled into the mask.
rb_threshold ==
    /\ rb_pc = "threshold"
    /\ \/ /\ rb_status' = [rb_status EXCEPT !["threshold"] = "raised"]
          /\ rb_pc' = "circle"
          /\ UNCHANGED <<contours, rb_mask>>
       \/ /\ contours' = "empty"
          /\ rb_status' = [rb_status EXCEPT !["threshold"] = "nocontours"]
          /\ rb_pc' = "circle"
          /\ UNCHANGED rb_mask
       \/ /\ contours' = "some"
          /\ rb_status' = [rb_status EXCEPT !["threshold"] = "running"]
          /\ rb_mask' = [method |-> "threshold"]
          /\ rb_pc' = "imwrite2"
    /\ UNCHANGED <<image, rb_imwrite, rb_file, rb_ret>>

\* rb_imwrite2 with the "return True" after the write left out: the threshold
\* method completes and the circle method runs all the same.
rb_imwrite2_no_return ==
    /\ rb_pc = "imwrite2"
    /\ \E o \in ImwriteOutcomes :
          /\ rb_imwrite' = o
          /\ rb_file' = IF o = "ok" THEN rb_mask ELSE rb_file
          /\ rb_status' = [rb_status EXCEPT !["threshold"] =
                              IF o = "raise" THEN "raised" ELSE "completed"]
    /\ rb_pc' = "circle"
    /\ UNCHANGED <<image, contours, rb_mask, rb_ret>>

\* Method 2, cv2.imwrite and return True; except: fall to the circle method.
rb_imwrite2 == rb_write("imwrite2", "threshold", "circle")

\* Method 3 (centre circle), up to result[:, :, 3] = mask.
rb_circleMask ==
    /\ rb_pc = "circle"
    /\ \/ /\ rb_status' = [rb_status EXCEPT !["circle"] = "raised"]
          /\ rb_pc' = "done"
          /\ rb_ret' = "False"
          /\ UNCHANGED rb_mask
       \/ /\ rb_status' = [rb_status EXCEPT !["circle"] = "running"]
          /\ rb_mask' = rb_circle(image)
          /\ rb_pc' = "imwrite3"
          /\ UNCHANGED rb_ret
    /\ UNCHANGED <<image, contours, rb_imwrite, rb_file>>

\* Method 3, cv2.imwrite and return True; except: return False.
rb_imwrite3 == rb_write("imwrite3", "circle", "return")


\* ------------------------------------------------------------------------
\* remove_background_opencv
\* ------------------------------------------------------------------------

\* numpy uint8 arithmetic wraps modulo 2^8.
UInt8(n) == n % 256

Pixels(w, h) == (0..(w - 1)) \X (0..(h - 1))

MaxOf(S) == CHOOSE x \in S : \A y \in S : y <= x
MinOf(S) == CHOOSE x \in S : \A y \in S : x <= y

Abs(n) == IF n < 0 THEN -n ELSE n

\* The pixels of the image under a 3x3 structuring element centred on p.
\* Pixels outside the image do not take part (OpenCV's default border value
\* for morphology).
Kernel3(p, w, h) ==
    {q \in Pixels(w, h) : Abs(q[1] - p[1]) <= 1 /\ Abs(q[2] - p[2]) <= 1}

\* cv2.dilate(m, kernel) with kernel = np.ones((3,3))
dilate(m, w, h) == [p \in Pixels(w, h) |-> MaxOf({m[q] : q \in Kernel3(p, w, h)})]

\* cv2.erode(m, kernel) with kernel = np.ones((3,3))
erode(m, w, h) == [p \in Pixels(w, h) |-> MinOf({m[q] : q \in Kernel3(p, w, h)})]

\* cv2.morphologyEx(m, cv2.MORPH_CLOSE, kernel): dilation, then erosion.
morphClose(m, w, h) == erode(dilate(m, w, h), w, h)

\* Bitwise OR of two bytes.
RECURSIVE BitOr(_, _)
BitOr(a, b) ==
    IF a = 0 THEN b
    ELSE IF b = 0 THEN a
    ELSE Max2(a % 2, b % 2) + 2 * BitOr(a \div 2, b \div 2)

\* cv2.bitwise_or(a, b), pixel by pixel.
bitwise_or(a, b) == [p \in DOMAIN a |-> BitOr(a[p], b[p])]

\* cv2.bitwise_not(a) on uint8, pixel by pixel.
bitwise_not(a) == [p \in DOMAIN a |-> 255 - a[p]]

\* cv2.inRange(hsv, lower, upper): 255 where every channel is in range.
inRange(hsv, lower, upper) ==
    [p \in DOMAIN hsv |->
        IF \A c \in 1..3 : lower[c] <= hsv[p][c] /\ hsv[p][c] <= upper[c]
        THEN 255 ELSE 0]

Clamp(n, lo, hi) == IF n < lo THEN lo ELSE IF n > hi THEN hi ELSE n

\* cv2.medianBlur(m, 5): the median of the 5x5 window, the image border
\* replicated.
medianBlur5(m, w, h) ==
    [p \in Pixels(w, h) |->
        LET win == (-2..2) \X (-2..2)
            at(d) == m[<<Clamp(p[1] + d[1], 0, w - 1), Clamp(p[2] + d[2], 0, h - 1)>>]
            atMost(v) == Cardinality({d \in win : at(d) <= v})
        IN  MinOf({v \in {at(d) : d \in win} : atMost(v) >= 13})]

\* mask2 = np.where((mask == 2) | (mask == 0), 0, 1)
grabCutMask2(mask) ==
    [p \in DOMAIN mask |-> IF mask[p] = 2 \/ mask[p] = 0 THEN 0 ELSE 1]

\* The classes cv2.grabCut leaves in mask: GC_BGD, GC_FGD, GC_PR_BGD, GC_PR_FGD.
GrabCutClasses == 0..3

\* Pixel colours the model decodes, as (H, S, V): white, light gray, a
\* saturated colour.
SampleHSV == {<<0, 0, 255>>, <<0, 40, 190>>, <<0, 255, 255>>}

ob_Init ==
    /\ ob_pc = "imread"
    /\ img = [width |-> 0, height |-> 0, hsv |-> <<>>]
    /\ ob_method1 = "notrun"
    /\ mask2 = <<>>
    /\ edges = <<>>
    /\ combined_mask = <<>>
    /\ fg_from_color = <<>>
    /\ final_mask = <<>>
    /\ alpha = <<>>
    /\ ob_file = [exists |-> FALSE]
    /\ ob_ret = [success |-> "none"]

\* img = cv2.imread(input_path); if img is None: return False, "Could not load"
ob_imread ==
    /\ ob_pc = "imread"
    /\ \/ /\ ob_pc' = "done"
          /\ ob_ret' = [success |-> "False", error |-> "Could not load image"]
          /\ UNCHANGED img
       \/ /\ \E w \in 1..MaxPixDim, h \in 1..MaxPixDim :
             \E px \in [Pixels(w, h) -> SampleHSV] :
                img' = [width |-> w, height |-> h, hsv |-> px]
          /\ ob_pc' = "grabCut"
          /\ UNCHANGED ob_ret
    /\ UNCHANGED <<ob_method1, mask2, edges, combined_mask, fg_from_color,
                   final_mask, alpha, ob_file>>

\* Method 1: cv2.grabCut is not in a try block of its own; an exception it
\* raises reaches the function's except clause, which returns False, str(e).
ob_grabCut ==
    /\ ob_pc = "grabCut"
    /\ \/ /\ ob_method1' = "raised"
          /\ ob_pc' = "done"
          /\ ob_ret' = [success |-> "False", error |-> "grabCut"]
          /\ UNCHANGED mask2
       \/ /\ ob_method1' = "ok"
          /\ \E mask \in [Pixels(img.width, img.height) -> GrabCutClasses] :
                mask2' = grabCutMask2(mask)
          /\ ob_pc' = "edges"
          /\ UNCHANGED ob_ret
    /\ UNCHANGED <<img, edges, combined_mask, fg_from_color, final_mask,
                   alpha, ob_file>>

\* Method 2: Canny edges (0 or 255 per pixel), closed and dilated, OR-ed into
\* the GrabCut mask as (edges > 0).
ob_edges ==
    /\ ob_pc = "edges"
    /\ \E canny \in [Pixels(img.width, img.height) -> {0, 255}] :
          edges' = dilate(morphClose(canny, img.width, img.height),
                          img.width, img.height)
    /\ combined_mask' =
          bitwise_or(mask2, [p \in DOMAIN edges' |-> IF edges'[p] > 0 THEN 1 ELSE 0])
    /\ ob_pc' = "color"
    /\ UNCHANGED <<img, ob_method1, mask2, fg_from_color, final_mask, alpha,
                   ob_file, ob_ret>>

\* Method 3: background colours by HSV range, inverted and closed, OR-ed into
\* the combined mask.
ob_color ==
    /\ ob_pc = "color"
    /\ LET white_mask == inRange(img.hsv, <<0, 0, 200>>, <<180, 30, 255>>)
           gray_mask  == inRange(img.hsv, <<0, 0, 180>>, <<180, 50, 220>>)
           bg_mask    == bitwise_or(white_mask, gray_mask)
           fg         == morphClose(bitwise_not(bg_mask), img.width, img.height)
       IN  /\ fg_from_color' = fg
           /\ final_mask' = bitwise_or(combined_mask, fg)
    /\ ob_pc' = "medianBlur"
    /\ UNCHANGED <<img, ob_method1, mask2, edges, combined_mask, alpha, ob_file,
                   ob_ret>>

\* final_mask = cv2.medianBlur(final_mask, 5); alpha = final_mask * 255
ob_medianBlur ==
    /\ ob_pc = "medianBlur"
    /\ final_mask' = medianBlur5(final_mask, img.width, img.height)
    /\ alpha' = [p \in DOMAIN final_mask' |-> UInt8(final_mask'[p] * 255)]
    /\ ob_pc' = "imwrite"
    /\ UNCHANGED <<img, ob_method1, mask2, edges, combined_mask, fg_from_color,
                   ob_file, ob_ret>>

\* os.makedirs, success = cv2.imwrite(...), os.path.getsize: the value imwrite
\* returns decides the result; any exception returns False, str(e).
ob_imwrite ==
    /\ ob_pc = "imwrite"
    /\ \/ /\ ob_ret' = [success |-> "False", error |-> "makedirs"]
          /\ UNCHANGED ob_file
       \/ \E o \in ImwriteOutcomes :
             /\ ob_file' = IF o = "ok"
                             THEN [exists |-> TRUE, alpha |-> alpha]
                             ELSE ob_file
             /\ ob_ret' \in
                  CASE o = "ok"    -> {[success |-> "True", error |-> "None"],
                                       [success |-> "False", error |-> "getsize"]}
                    [] o = "false" -> {[success |-> "False",
                                        error |-> "Failed to save processed image"]}
                    [] o = "raise" -> {[success |-> "False", error |-> "imwrite"]}
    /\ ob_pc' = "done"
    /\ UNCHANGED <<img, ob_method1, mask2, edges, combined_mask, fg_from_color,
                   final_mask, alpha>>

\* ------------------------------------------------------------------------
\* normalize_mesh_scale: numbers
\* ------------------------------------------------------------------------

\* A float, kept exactly: a rational n/d with d > 0, or one of the IEEE
\* values a division by zero produces.
Fin(n, d) == [k |-> "fin", n |-> n, d |-> d]
PosInf == [k |-> "inf", n |-> 0, d |-> 1]
NegInf == [k |-> "-inf", n |-> 0, d |-> 1]
NaN == [k |-> "nan", n |-> 0, d |-> 1]

IsFinite(a) == a.k = "fin"
Sign(n) == IF n > 0 THEN 1 ELSE IF n < 0 THEN -1 ELSE 0

\* The sign of a float: -1, 0, 1 (NaN has none and is tested before).
NumSign(a) == CASE a.k = "fin" -> Sign(a.n) [] a.k = "inf" -> 1
                [] a.k = "-inf" -> -1 [] OTHER -> 0

\* a == b as floats of the same kind (rationals compared by cross product).
NumEq(a, b) == a.k = b.k /\ (a.k = "fin" => a.n * b.d = b.n * a.d)

\* a < b; every comparison with NaN is false.
NumLt(a, b) ==
    /\ a.k # "nan" /\ b.k # "nan"
    /\ CASE a.k = "fin" /\ b.k = "fin" -> a.n * b.d < b.n * a.d
         [] a.k = "-inf" -> b.k # "-inf"
         [] a.k = "inf" -> FALSE
         [] OTHER -> b.k = "inf"

\* a - b; inf - inf is NaN.
NumSub(a, b) ==
    CASE a.k = "nan" \/ b.k = "nan" -> NaN
      [] a.k = "fin" /\ b.k = "fin" -> Fin(a.n * b.d - b.n * a.d, a.d * b.d)
      [] a.k = b.k -> NaN
      [] a.k = "inf" \/ b.k = "-inf" -> PosInf
      [] OTHER -> NegInf

\* a * b; 0 * inf is NaN.
NumMul(a, b) ==
    CASE a.k = "nan" \/ b.k = "nan" -> NaN
      [] a.k = "fin" /\ b.k = "fin" -> Fin(a.n * b.n, a.d * b.d)
      [] NumSign(a) * NumSign(b) = 0 -> NaN
      [] NumSign(a) * NumSign(b) > 0 -> PosInf
      [] OTHER -> NegInf

\* a / b for finite a and b as numpy divides float64: a division by zero
\* raises nothing and gives inf, -inf or NaN.
NumDiv(a, b) ==
    IF b.n = 0
    THEN (IF a.n > 0 THEN PosInf ELSE IF a.n < 0 THEN NegInf ELSE NaN)
    ELSE Fin(a.n * b.d * Sign(b.n), a.d * b.n * Sign(b.n))

\* Python's max(seq) on floats: the first element, replaced by each later
\* element that compares greater.
RECURSIVE PyMaxFrom(_, _, _)
PyMaxFrom(seq, i, best) ==
    IF i > Len(seq) THEN best
    ELSE PyMaxFrom(seq, i + 1, IF NumLt(best, seq[i]) THEN seq[i] ELSE best)

PyMax(seq) == PyMaxFrom(seq, 2, seq[1])

\* ------------------------------------------------------------------------
\* normalize_mesh_scale: geometry
\* ------------------------------------------------------------------------

Vtx(x, y, z) == <<Fin(x, 1), Fin(y, 1), Fin(z, 1)>>

\* The geometries a GLB file of the model holds. Face entries are 0-based
\* vertex indices, as in trimesh.
GEmpty == [vertices |-> <<>>, faces |-> <<>>]
\* one triangle whose three vertices coincide: every extent is zero
GPoint == [vertices |-> <<Vtx(1, 1, 1), Vtx(1, 1, 1), Vtx(1, 1, 1)>>,
           faces |-> <<<<0, 1, 2>>>>]
\* one open triangle
GTri == [vertices |-> <<Vtx(0, 0, 0), Vtx(2, 0, 0), Vtx(0, 1, 0)>>,
         faces |-> <<<<0, 1, 2>>>>]
\* a closed tetrahedron
GTetra == [vertices |-> <<Vtx(0, 0, 0), Vtx(1, 0, 0), Vtx(0, 1, 0), Vtx(0, 0, 1)>>,
           faces |-> <<<<0, 2, 1>>, <<0, 1, 3>>, <<0, 3, 2>>, <<1, 2, 3>>>>]

Geometries == {GEmpty, GPoint, GTri, GTetra}

\* Most geometries in a scene of the model.
MaxGeoms == 3

SeqsUpTo(S, n) == UNION {[1..k -> S] : k \in 0..n}

\* trimesh.load returns a Scene (it has .geometry), a Trimesh (it has
\* .vertices) or an object with neither.
Assets ==
    {[kind |-> "scene", geometry |-> gs] : gs \in SeqsUpTo(Geometries, MaxGeoms)}
    \cup {[kind |-> "mesh", geometry |-> <<g>>] : g \in Geometries}
    \cup {[kind |-> "other", geometry |-> <<>>]}

\* def normalize_mesh_scale(..., target_size_mm: float = 100.0)
DefaultTargetSize == 100

\* Largest of the small target sizes the model passes.
MaxTarget == 2

Targets == {DefaultTargetSize} \cup (-1..MaxTarget)

\* valid_geometries without the len(geom.vertices) > 0 test.
valid_geometries_all(gs) == gs

\* for name, geom in mesh.geometry.items():
\*     if hasattr(geom, 'vertices') and len(geom.vertices) > 0: geometries.append(geom)
valid_geometries(gs) == SelectSeq(gs, LAMBDA g : Len(g.vertices) > 0)

\* trimesh.util.concatenate(geometries): the vertex arrays stacked, every
\* face index raised by the number of vertices stacked before its geometry.
RECURSIVE concatenate(_)
concatenate(gs) ==
    IF Len(gs) = 0 THEN GEmpty
    ELSE LET head == concatenate(SubSeq(gs, 1, Len(gs) - 1))
             last == gs[Len(gs)]
             off  == Len(head.vertices)
         IN  [vertices |-> head.vertices \o last.vertices,
              faces |-> head.faces \o
                  [j \in 1..Len(last.faces) |->
                      [c \in 1..3 |-> last.faces[j][c] + off]]]

\* The vertices some face refers to (trimesh's bounds look at these only).
Referenced(m) == {m.faces[j][c] + 1 : j \in 1..Len(m.faces), c \in 1..3}

\* One axis of bounding_box.extents: max - min over the referenced vertices.
AxisExtent(m, ax) ==
    LET vals == {m.vertices[i][ax] : i \in Referenced(m)}
    IN  IF \E a \in vals : a.k = "nan" THEN NaN
        ELSE NumSub(CHOOSE a \in vals : \A b \in vals : ~NumLt(a, b),
                    CHOOSE a \in vals : \A b \in vals : ~NumLt(b, a))

\* mesh.bounding_box.extents
extents(m) == [ax \in 1..3 |-> AxisExtent(m, ax)]

\* The undirected edges of a face.
FaceEdges(f) == {{f[1], f[2]}, {f[2], f[3]}, {f[3], f[1]}}

\* How many faces an edge belongs to.
EdgeCount(m, e) == Cardinality({j \in 1..Len(m.faces) : e \in FaceEdges(m.faces[j])})

AllEdges(m) == UNION {FaceEdges(m.faces[j]) : j \in 1..Len(m.faces)}

\* mesh.is_watertight: the mesh is not empty and every edge is shared by
\* exactly two faces.
is_watertight(m) ==
    /\ Len(m.faces) > 0
    /\ \A e \in AllEdges(m) : EdgeCount(m, e) = 2

RECURSIVE SetToSeq(_)
SetToSeq(S) ==
    IF S = {} THEN <<>>
    ELSE LET x == CHOOSE y \in S : \A z \in S : y[1] < z[1]
                     \/ (y[1] = z[1] /\ (y[2] < z[2]
                     \/ (y[2] = z[2] /\ y[3] <= z[3])))
         IN  <<x>> \o SetToSeq(S \ {x})

\* mesh.fill_holes() when it fills: every triangular loop of boundary edges
\* (edges of one face only) gets a new face; no face or vertex is removed.
filled(m) ==
    LET n == Len(m.vertices)
        boundary == {e \in AllEdges(m) : EdgeCount(m, e) = 1}
        loops == {t \in (0..(n - 1)) \X (0..(n - 1)) \X (0..(n - 1)) :
                    /\ t[1] < t[2] /\ t[2] < t[3]
                    /\ {t[1], t[2]} \in boundary
                    /\ {t[2], t[3]} \in boundary
                    /\ {t[1], t[3]} \in boundary}
    IN  [m EXCEPT !.faces = m.faces \o SetToSeq(loops)]

\* A face with area: its corners are three different points.  (The sample
\* geometries hold no collinear face.)
HasArea(m, f) ==
    /\ m.vertices[f[1] + 1] # m.vertices[f[2] + 1]
    /\ m.vertices[f[2] + 1] # m.vertices[f[3] + 1]
    /\ m.vertices[f[1] + 1] # m.vertices[f[3] + 1]

\* mesh.centroid is the area-weighted mean of the triangle centres, a point
\* of the bounding box that is not rational in general: the model lets it be
\* any integer point of the box.
Centroids(m) ==
    LET lo(ax) == CHOOSE a \in {m.vertices[i][ax].n : i \in Referenced(m)} :
                     \A i \in Referenced(m) : a <= m.vertices[i][ax].n
        hi(ax) == CHOOSE a \in {m.vertices[i][ax].n : i \in Referenced(m)} :
                     \A i \in Referenced(m) : a >= m.vertices[i][ax].n
    IN  {<<Fin(x, 1), Fin(y, 1), Fin(z, 1)>> :
            x \in lo(1)..hi(1), y \in lo(2)..hi(2), z \in lo(3)..hi(3)}

\* Binary STL: an 84-byte header and 50 bytes per face.
stl_size(m) == 84 + 50 * Len(m.faces)

\* ------------------------------------------------------------------------
\* normalize_mesh_scale: the steps
\* ------------------------------------------------------------------------

NoMesh == [vertices |-> <<>>, faces |-> <<>>]
NoExtents == <<NaN, NaN, NaN>>

\* except Exception as e: return {"success": False, "error": str(e)}
Failure(e) == [success |-> "False", error |-> e]

\* The locals of a call before its first statement.
nm_Fresh ==
    /\ mesh = NoMesh
    /\ merged_counts = [vertices |-> 0, faces |-> 0]
    /\ original_extents = NoExtents
    /\ scale_factor = NaN
    /\ new_extents = NoExtents
    /\ repair = "notrun"
    /\ stl_file = "absent"
    /\ nm_ret = [success |-> "none"]

\* A call with any asset at glb_path and any target size of the model.
nm_Init ==
    /\ nm_pc = "load"
    /\ asset \in Assets
    /\ target_size_mm \in Targets
    /\ nm_Fresh

\* normalize_mesh_scale is not called.
nm_Idle ==
    /\ nm_pc = "idle"
    /\ asset = [kind |-> "other", geometry |-> <<>>]
    /\ target_size_mm = DefaultTargetSize
    /\ nm_Fresh

\* mesh = trimesh.load(glb_path): raises on a missing or unreadable file.
nm_load ==
    /\ nm_pc = "load"
    /\ \/ /\ nm_pc' = "done"
          /\ nm_ret' = Failure("load")
       \/ /\ nm_pc' = "merge"
          /\ UNCHANGED nm_ret
    /\ UNCHANGED <<asset, target_size_mm, mesh, merged_counts, original_extents,
                   scale_factor, new_extents, repair, stl_file>>

\* if hasattr(mesh, 'geometry'): ... concatenate the non-empty geometries
\* elif hasattr(mesh, 'vertices'): ... else: raise ValueError
nm_merge ==
    /\ nm_pc = "merge"
    /\ CASE asset.kind = "scene" ->
              LET geometries == valid_geometries(asset.geometry)
              IN  IF Len(geometries) = 0
                  THEN /\ nm_pc' = "done"
                       /\ nm_ret' = Failure("No valid geometries found in GLB file")
                       /\ UNCHANGED <<mesh, merged_counts>>
                  ELSE /\ mesh' = concatenate(geometries)
                       /\ merged_counts' = [vertices |-> Len(mesh'.vertices),
                                            faces |-> Len(mesh'.faces)]
                       /\ nm_pc' = "bbox"
                       /\ UNCHANGED nm_ret
         [] asset.kind = "mesh" ->
              /\ mesh' = asset.geometry[1]
              /\ merged_counts' = [vertices |-> Len(mesh'.vertices),
                                   faces |-> Len(mesh'.faces)]
              /\ nm_pc' = "bbox"
              /\ UNCHANGED nm_ret
         [] OTHER ->
              /\ nm_pc' = "done"
              /\ nm_ret' = Failure("Unable to extract mesh data from GLB file")
              /\ UNCHANGED <<mesh, merged_counts>>
    /\ UNCHANGED <<asset, target_size_mm, original_extents, scale_factor,
                   new_extents, repair, stl_file>>

\* compute_scale_factor with the quotient upside down.
compute_scale_factor_inverted(target, exts) == NumDiv(PyMax(exts), Fin(target, 1))

\* max_extent = max(original_extents)
\* scale_factor = target_size_mm / max_extent
compute_scale_factor(target, exts) == NumDiv(Fin(target, 1), PyMax(exts))

\* bbox = mesh.bounding_box; original_extents = bbox.extents
\* max_extent = max(original_extents)
\* scale_factor = target_size_mm / max_extent
\* A mesh no face of which refers to a vertex has no bounds and bounding_box
\* raises; the division raises nothing, whatever max_extent is.
nm_bbox ==
    /\ nm_pc = "bbox"
    /\ IF Referenced(mesh) = {}
       THEN /\ nm_pc' = "done"
            /\ nm_ret' = Failure("bounding_box")
            /\ UNCHANGED <<original_extents, scale_factor>>
       ELSE /\ original_extents' = extents(mesh)
            /\ scale_factor' = compute_scale_factor(target_size_mm, original_extents')
            /\ nm_pc' = "center"
            /\ UNCHANGED nm_ret
    /\ UNCHANGED <<asset, target_size_mm, mesh, merged_counts, new_extents,
                   repair, stl_file>>

\* mesh.vertices -= mesh.centroid
\* When no face has area the weights of the centroid sum to zero: trimesh
\* then raises or falls back to the plain mean, depending on its version.
nm_center ==
    /\ nm_pc = "center"
    /\ \/ /\ \A j \in 1..Len(mesh.faces) : ~HasArea(mesh, mesh.faces[j])
          /\ nm_pc' = "done"
          /\ nm_ret' = Failure("centroid")
          /\ UNCHANGED mesh
       \/ /\ \E c \in Centroids(mesh) :
                mesh' = [mesh EXCEPT !.vertices =
                            [i \in 1..Len(mesh.vertices) |->
                                [ax \in 1..3 |-> NumSub(mesh.vertices[i][ax], c[ax])]]]
          /\ nm_pc' = "scale"
          /\ UNCHANGED nm_ret
    /\ UNCHANGED <<asset, target_size_mm, merged_counts, original_extents,
                   scale_factor, new_extents, repair, stl_file>>

\* mesh.vertices *= scale_factor
\* new_extents = mesh.bounding_box.extents; new_max_extent = max(new_extents)
nm_scale ==
    /\ nm_pc = "scale"
    /\ mesh' = [mesh EXCEPT !.vertices =
                   [i \in 1..Len(mesh.vertices) |->
                       [ax \in 1..3 |-> NumMul(mesh.vertices[i][ax], scale_factor)]]]
    /\ new_extents' = extents(mesh')
    /\ nm_pc' = "watertight"
    /\ UNCHANGED <<asset, target_size_mm, merged_counts, original_extents,
                   scale_factor, repair, stl_file, nm_ret>>

\* if not mesh.is_watertight: (try to fix) else: (already watertight)
nm_watertight ==
    /\ nm_pc = "watertight"
    /\ IF is_watertight(mesh)
       THEN /\ repair' = "skipped"
            /\ nm_pc' = "export"
       ELSE /\ nm_pc' = "fill_holes"
            /\ UNCHANGED repair
    /\ UNCHANGED <<asset, target_size_mm, mesh, merged_counts, original_extents,
                   scale_factor, new_extents, stl_file, nm_ret>>

\* nm_fill_holes without its try block: an exception of fill_holes reaches
\* the function's except clause.
nm_fill_holes_fatal ==
    /\ nm_pc = "fill_holes"
    /\ \/ /\ repair' = "raised"
          /\ nm_pc' = "done"
          /\ nm_ret' = Failure("fill_holes")
          /\ UNCHANGED mesh
       \/ /\ repair' = "unchanged"
          /\ nm_pc' = "export"
          /\ UNCHANGED <<mesh, nm_ret>>
       \/ /\ repair' = "filled"
          /\ mesh' = filled(mesh)
          /\ nm_pc' = "export"
          /\ UNCHANGED nm_ret
    /\ UNCHANGED <<asset, target_size_mm, merged_counts, original_extents,
                   scale_factor, new_extents, stl_file>>

\* try: mesh.fill_holes() ... except Exception as fix_error: (logged)
\* fill_holes raises, leaves the mesh as it is, or adds the closing faces; the
\* export follows in every case.
nm_fill_holes ==
    /\ nm_pc = "fill_holes"
    /\ \/ /\ repair' = "raised"
          /\ UNCHANGED mesh
       \/ /\ repair' = "unchanged"
          /\ UNCHANGED mesh
       \/ /\ repair' = "filled"
          /\ mesh' = filled(mesh)
    /\ nm_pc' = "export"
    /\ UNCHANGED <<asset, target_size_mm, merged_counts, original_extents,
                   scale_factor, new_extents, stl_file, nm_ret>>

\* mesh.export(stl_path): trimesh opens stl_path for writing, then encodes
\* and writes. An exception leaves no file (the open failed) or a partial
\* one; nothing in the except clause removes it.
nm_export ==
    /\ nm_pc = "export"
    /\ \/ /\ stl_file' = "complete"
          /\ nm_pc' = "getsize"
          /\ UNCHANGED nm_ret
       \/ /\ stl_file' \in {"absent", "partial"}
          /\ nm_pc' = "done"
          /\ nm_ret' = Failure("export")
    /\ UNCHANGED <<asset, target_size_mm, mesh, merged_counts, original_extents,
                   scale_factor, new_extents, repair>>

\* nm_getsize returning the totals logged after the merge instead of those
\* of the mesh it exported.
nm_getsize_merge_counts ==
    /\ nm_pc = "getsize"
    /\ \/ nm_ret' = Failure("getsize")
       \/ nm_ret' = [success |-> "True",
                     original_extents |-> original_extents,
                     new_extents |-> new_extents,
                     scale_factor |-> scale_factor,
                     target_size_mm |-> target_size_mm,
                     new_max_extent_mm |-> PyMax(new_extents),
                     vertex_count |-> merged_counts.vertices,
                     face_count |-> merged_counts.faces,
                     is_watertight |-> is_watertight(mesh),
                     stl_file_size |-> stl_size(mesh)]
    /\ nm_pc' = "done"
    /\ UNCHANGED <<asset, target_size_mm, mesh, merged_counts, original_extents,
                   scale_factor, new_extents, repair, stl_file>>

\* stl_size = os.path.getsize(stl_path); return {"success": True, ...}
\* getsize raises OSError when stl_path cannot be examined.
nm_getsize ==
    /\ nm_pc = "getsize"
    /\ \/ nm_ret' = Failure("getsize")
       \/ nm_ret' = [success |-> "True",
                     original_extents |-> original_extents,
                     new_extents |-> new_extents,
                     scale_factor |-> scale_factor,
                     target_size_mm |-> target_size_mm,
                     new_max_extent_mm |-> PyMax(new_extents),
                     vertex_count |-> Len(mesh.vertices),
                     face_count |-> Len(mesh.faces),
                     is_watertight |-> is_watertight(mesh),
                     stl_file_size |-> stl_size(mesh)]
    /\ nm_pc' = "done"
    /\ UNCHANGED <<asset, target_size_mm, mesh, merged_counts, original_extents,
                   scale_factor, new_extents, repair, stl_file>>

vars == <<rbVars, obVars, nmVars>>

\* The process runs one command (main): the function called starts at its
\* first statement, the other two are not called and never step.
CascadeInit == rb_Init /\ ob_Init /\ nm_Idle
CompositeInit == rb_Init /\ ob_Init /\ nm_Idle
MeshInit == rb_Init /\ ob_Init /\ nm_Init

\* A call of remove_background.
CascadeNext ==
    \/ rb_imread /\ UNCHANGED <<obVars, nmVars>>
    \/ rb_grabCut /\ UNCHANGED <<obVars, nmVars>>
    \/ rb_imwrite1 /\ UNCHANGED <<obVars, nmVars>>
    \/ rb_threshold /\ UNCHANGED <<obVars, nmVars>>
    \/ rb_imwrite2 /\ UNCHANGED <<obVars, nmVars>>
    \/ rb_circleMask /\ UNCHANGED <<obVars, nmVars>>
    \/ rb_imwrite3 /\ UNCHANGED <<obVars, nmVars>>

\* A call of remove_background_opencv.
CompositeNext ==
    \/ ob_imread /\ UNCHANGED <<rbVars, nmVars>>
    \/ ob_grabCut /\ UNCHANGED <<rbVars, nmVars>>
    \/ ob_edges /\ UNCHANGED <<rbVars, nmVars>>
    \/ ob_color /\ UNCHANGED <<rbVars, nmVars>>
    \/ ob_medianBlur /\ UNCHANGED <<rbVars, nmVars>>
    \/ ob_imwrite /\ UNCHANGED <<rbVars, nmVars>>

\* A call of normalize_mesh_scale.
MeshNext ==
    \/ nm_load /\ UNCHANGED <<rbVars, obVars>>
    \/ nm_merge /\ UNCHANGED <<rbVars, obVars>>
    \/ nm_bbox /\ UNCHANGED <<rbVars, obVars>>
    \/ nm_center /\ UNCHANGED <<rbVars, obVars>>
    \/ nm_scale /\ UNCHANGED <<rbVars, obVars>>
    \/ nm_watertight /\ UNCHANGED <<rbVars, obVars>>
    \/ nm_fill_holes /\ UNCHANGED <<rbVars, obVars>>
    \/ nm_export /\ UNCHANGED <<rbVars, obVars>>
    \/ nm_getsize /\ UNCHANGED <<rbVars, obVars>>

SpecCascade == CascadeInit /\ [][CascadeNext]_vars
SpecComposite == CompositeInit /\ [][CompositeNext]_vars
SpecMesh == MeshInit /\ [][MeshNext]_vars

\* ------------------------------------------------------------------------
\* Properties of remove_background
\* ------------------------------------------------------------------------

rb_Loaded == image.width > 0
rb_Invoked(m) == rb_status[m] # "notrun"

C5_SuccessOnlyIfWritten ==
    /\ rb_ret = "True" => rb_imwrite = "ok" /\ rb_file.method # "absent"
    /\ ob_ret.success = "True" => ob_file.exists

\* ------------------------------------------------------------------------
\* Properties of remove_background_opencv
\* ------------------------------------------------------------------------

\* The errors of a call that could not load its image or write its output.
LoadOrWriteErrors ==
    {"Could not load image", "makedirs", "imwrite",
     "Failed to save processed image", "getsize"}

\* C2: GrabCut raising never aborts the call: its mask is then all zero, the
\* edge and colour methods still run, and the call fails only if the image
\* cannot be loaded or the output file cannot be written.
C2_GrabCutFailureDegrades ==
    /\ ob_method1 = "raised" /\ ob_pc = "done" =>
          /\ DOMAIN mask2 # {} /\ \A p \in DOMAIN mask2 : mask2[p] = 0
          /\ DOMAIN edges # {}
          /\ DOMAIN fg_from_color # {}
    /\ ob_ret.success = "False" => ob_ret.error \in LoadOrWriteErrors

\* C4: every mask value after each OR step and after the smoothing is 0 or
\* 1, and the alpha written is mask * 255 with no wraparound: 255 where the
\* smoothed mask marks foreground, 0 elsewhere.
C4_BinaryMaskFullAlpha ==
    /\ \A p \in DOMAIN combined_mask : combined_mask[p] \in {0, 1}
    /\ \A p \in DOMAIN final_mask : final_mask[p] \in {0, 1}
    /\ \A p \in DOMAIN alpha :
          /\ alpha[p] = final_mask[p] * 255
          /\ alpha[p] = IF final_mask[p] # 0 THEN 255 ELSE 0
    /\ ob_file.exists => ob_file.alpha = alpha

\* ------------------------------------------------------------------------
\* Properties of normalize_mesh_scale
\* ------------------------------------------------------------------------

\* The asset was loaded and the merge step is behind.
nm_Merged ==
    /\ nm_pc \notin {"idle", "load", "merge"}
    /\ nm_ret # Failure("load")
nm_Success == nm_ret.success = "True"
nm_Failed == nm_ret.success = "False"

\* The bounding box was computed and every extent is zero.
ZeroExtents == \A ax \in 1..3 : NumEq(original_extents[ax], Fin(0, 1))

\* The bounding box was computed and its largest extent is positive.
NonDegenerate ==
    /\ \A ax \in 1..3 : IsFinite(original_extents[ax])
    /\ NumLt(Fin(0, 1), PyMax(original_extents))

\* C3: a mesh whose extents are all zero (or that is empty) ends in a
\* failure result without reaching the export, so no file is written, and
\* never in success with a non-finite scale factor.
C3_DegenerateMeshFails ==
    /\ ZeroExtents \/ (nm_Merged /\ Len(mesh.vertices) = 0) =>
          /\ nm_pc \notin {"export", "getsize"}
          /\ stl_file = "absent"
          /\ nm_pc = "done" => nm_Failed
    /\ nm_Success => IsFinite(nm_ret.scale_factor)

\* C6: whenever the result is a failure, stl_path holds no file of this
\* call.
C6_NoFileAfterFailure == nm_Failed => stl_file = "absent"

Abs1(a) == IF NumSign(a) < 0 THEN NumSub(Fin(0, 1), a) ELSE a

NonEmptyOf(gs) == SelectSeq(gs, LAMBDA g : g.vertices # <<>>)

RECURSIVE VertexTotal(_, _)
\* The vertex count of the first n geometries of gs.
VertexTotal(gs, n) == IF n = 0 THEN 0 ELSE VertexTotal(gs, n - 1) + Len(gs[n].vertices)

RECURSIVE FaceTotal(_, _)
\* The face count of the first n geometries of gs.
FaceTotal(gs, n) == IF n = 0 THEN 0 ELSE FaceTotal(gs, n - 1) + Len(gs[n].faces)

\* C8: merging a scene gives as many vertices as its non-empty geometries
\* hold together; every face of geometry i keeps its indices, raised by the
\* vertex count of the geometries before it, so that it refers to that
\* geometry's own block of vertices; a scene with no non-empty geometry gives
\* the failure result and is never merged.
C8_SceneMerge ==
    asset.kind = "scene" /\ nm_Merged =>
        LET gs == NonEmptyOf(asset.geometry)
        IN  /\ merged_counts.vertices = VertexTotal(asset.geometry, Len(asset.geometry))
            /\ gs = <<>> =>
                  /\ nm_pc = "done"
                  /\ nm_ret = Failure("No valid geometries found in GLB file")
            /\ gs # <<>> /\ nm_pc = "bbox" =>
                  /\ Len(mesh.vertices) = VertexTotal(gs, Len(gs))
                  /\ Len(mesh.faces) = FaceTotal(gs, Len(gs))
                  /\ \A i \in 1..Len(gs) :
                        /\ \A k \in 1..Len(gs[i].vertices) :
                              mesh.vertices[VertexTotal(gs, i - 1) + k] = gs[i].vertices[k]
                        /\ \A j \in 1..Len(gs[i].faces) : \A c \in 1..3 :
                              LET idx == mesh.faces[FaceTotal(gs, i - 1) + j][c]
                              IN  /\ idx = gs[i].faces[j][c] + VertexTotal(gs, i - 1)
                                  /\ idx >= VertexTotal(gs, i - 1)
                                  /\ idx < VertexTotal(gs, i)

\* C8's case: a scene of an empty geometry and two non-empty ones of 3 and 4
\* vertices has been merged into 7 vertices and 5 faces.
C8_Witness ==
    /\ nm_pc = "bbox"
    /\ asset.kind = "scene"
    /\ Len(asset.geometry) = 3
    /\ \E i \in 1..3 : asset.geometry[i] = GEmpty
    /\ Len(mesh.vertices) = 7
    /\ Len(mesh.faces) = 5

RepairAttempted == repair \in {"raised", "unchanged", "filled"}

\* C9: the repair of a non-watertight mesh is advisory: whatever
\* fill_holes does, the export step comes next; the call then fails only by
\* the export or the size read failing, and otherwise returns success with
\* is_watertight the watertightness of the mesh after the repair attempt.
C9_RepairIsAdvisory ==
    /\ [](RepairAttempted =>
            /\ nm_pc \in {"export", "getsize", "done"}
            /\ nm_pc = "done" =>
                  \/ /\ nm_Success
                     /\ stl_file = "complete"
                     /\ nm_ret.is_watertight = is_watertight(mesh)
                     /\ repair \in {"raised", "unchanged"} => ~nm_ret.is_watertight
                  \/ nm_ret \in {Failure("export"), Failure("getsize")})
    /\ [][nm_pc = "fill_holes" => nm_pc' = "export" /\ RepairAttempted']_vars

\* C9's case: fill_holes raised on a non-watertight mesh and the call
\* returned success with is_watertight false.
C9_Witness ==
    /\ nm_pc = "done"
    /\ repair = "raised"
    /\ nm_Success
    /\ ~nm_ret.is_watertight
    /\ stl_file = "complete"

\* C10, as stated: on success vertex_count and face_count are the totals of
\* the geometry after the merge step, also when the repair changed it.
C10_CountsAfterMerge_AsStated ==
    nm_Success =>
        /\ nm_ret.vertex_count = merged_counts.vertices
        /\ nm_ret.face_count = merged_counts.faces

\* C10, amended: on success vertex_count and face_count are the totals of
\* the mesh that was exported, that is after the repair attempt; they are
\* never below the totals after the merge and equal them unless the repair
\* added geometry.
C10_CountsOfExportedMesh ==
    nm_Success =>
        /\ nm_ret.vertex_count = Len(mesh.vertices)
        /\ nm_ret.face_count = Len(mesh.faces)
        /\ nm_ret.stl_file_size = stl_size(mesh)
        /\ nm_ret.vertex_count >= merged_counts.vertices
        /\ nm_ret.face_count >= merged_counts.faces
        /\ repair # "filled" =>
              /\ nm_ret.vertex_count = merged_counts.vertices
              /\ nm_ret.face_count = merged_counts.faces

\* C10's case: the repair added faces to a non-watertight mesh and the
\* call returned the larger face count.
C10_Witness ==
    /\ nm_Success
    /\ repair = "filled"
    /\ nm_ret.face_count > merged_counts.faces
    /\ nm_ret.is_watertight

=============================================================================
